---- MODULE Spec2Model ----
(***************************************************************************)
(* Model of ads_citation_utils.py: get_ads_paper_pubdate,                  *)
(* get_ads_citing_papers and plot_ADS_num_citations_by_time.               *)
(*                                                                         *)
(* Python strings that the code compares, splits or converts are modelled  *)
(* as sequences of character codes (ASCII), so that `<`, `>`, split('-')   *)
(* and int() are computed the way Python computes them.  Opaque strings    *)
(* (titles, bibcodes, exception names) are TLA+ strings.                   *)
(***************************************************************************)
EXTENDS Integers, Sequences, FiniteSets, TLC

VARIABLES pc, op, resolution, remove_false, now, cited_pubdate, requests,
          lookup_response, response, i, papers, result, fault, bars

vars == <<pc, op, resolution, remove_false, now, cited_pubdate, requests,
          lookup_response, response, i, papers, result, fault, bars>>

(* Largest number of documents in the docs list of a citing-papers response *)
MaxDocs == 2

----------------------------------------------------------------------------
(* Character codes *)

Dash == <<45>>
DigitChars == 48..57
Digit(n) == 48 + n

(* The literal "Unknown" of paper.get("pubdate", "Unknown") *)
Unknown == <<85, 110, 107, 110, 111, 119, 110>>

(* strftime fields: %Y as four digits, %m and %d as two digits *)
Pad2(n) == <<Digit(n \div 10), Digit(n % 10)>>
Pad4(n) == <<Digit(n \div 1000), Digit((n \div 100) % 10),
             Digit((n \div 10) % 10), Digit(n % 10)>>

(* datetime.strftime('%Y-%m-%d') of a date given as <<y, m, d>> *)
strftime(t) == Pad4(t[1]) \o Dash \o Pad2(t[2]) \o Dash \o Pad2(t[3])

----------------------------------------------------------------------------
(* Python values *)

(* A local variable that holds a str, None, or is not yet bound *)
Unbound == [tag |-> "unbound", s |-> <<>>]
None == [tag |-> "None", s |-> <<>>]
Str(s) == [tag |-> "str", s |-> s]

(* What get_ads_citing_papers returns: the list [] or the DataFrame papers *)
NoResult == [tag |-> "unbound", rows |-> <<>>]
EmptyList == [tag |-> "list", rows |-> <<>>]
DataFrame(rows) == [tag |-> "DataFrame", rows |-> rows]

NoFault == [exc |-> "none", fn |-> "none"]
Raise(e, f) == [exc |-> e, fn |-> f]

NoResponse == [status_code |-> 0, docs |-> <<>>]

----------------------------------------------------------------------------
(* Python str operations used by the code *)

(* a < b on str: code-point lexicographic order, a proper prefix is smaller *)
RECURSIVE StrLess(_, _)
StrLess(a, b) ==
    IF b = <<>> THEN FALSE
    ELSE IF a = <<>> THEN TRUE
    ELSE IF Head(a) # Head(b) THEN Head(a) < Head(b)
    ELSE StrLess(Tail(a), Tail(b))

(* a > b on str *)
StrGreater(a, b) == StrLess(b, a)

(* s.split('-'): the list of the pieces between the dashes *)
RECURSIVE SplitFrom(_, _, _)
SplitFrom(s, k, cur) ==
    IF k > Len(s) THEN <<cur>>
    ELSE IF s[k] = Dash[1] THEN <<cur>> \o SplitFrom(s, k + 1, <<>>)
    ELSE SplitFrom(s, k + 1, Append(cur, s[k]))

split(s) == SplitFrom(s, 1, <<>>)

(* int(s) raises ValueError unless s is a non-empty run of decimal digits *)
IsInt(s) == Len(s) > 0 /\ \A k \in 1..Len(s) : s[k] \in DigitChars

(* int(s) for a run of decimal digits *)
RECURSIVE int(_)
int(s) ==
    IF s = <<>> THEN 0
    ELSE 10 * int(SubSeq(s, 1, Len(s) - 1)) + (s[Len(s)] - 48)

----------------------------------------------------------------------------
(* What the remote service and the clock can hand to the program *)

(* A pubdate string as the service writes it (month and day may be 00) *)
D(y, m, d) == Pad4(y) \o Dash \o Pad2(m) \o Dash \o Pad2(d)

(* Values of datetime.today(), as <<year, month, day>> *)
Todays == {<<2021, 3, 10>>, <<2022, 6, 15>>}

(* Documents of a citing-papers response.  A JSON object is a function    *)
(* from its keys; a key that the service left out is not in the DOMAIN.   *)
DocPool ==
    { [title |-> <<"T1">>, bibcode |-> "B1", pubdate |-> D(2019, 12, 0)],
      [title |-> <<"T2">>, bibcode |-> "B2", pubdate |-> D(2020, 5, 0)],
      [title |-> <<"T3">>, bibcode |-> "B3", pubdate |-> D(2021, 3, 0)],
      [title |-> <<"T4">>, bibcode |-> "B4", pubdate |-> D(2022, 0, 0)],
      [title |-> <<"T5">>, bibcode |-> "B5", pubdate |-> D(2022, 6, 15)],
      [title |-> <<"T6">>, bibcode |-> "B6", pubdate |-> D(2023, 1, 0)],
      [title |-> <<"T7">>, bibcode |-> "B7", pubdate |-> D(2021, 13, 0)],
      [title |-> <<"T8">>, bibcode |-> "B8", pubdate |-> Pad4(2021) \o Dash \o Pad2(3)],
      [title |-> <<"T9">>, bibcode |-> "B9"],
      [bibcode |-> "B10", pubdate |-> D(2021, 3, 0)],
      [title |-> <<"T11">>, pubdate |-> D(2021, 3, 0)] }

RECURSIVE SeqsUpTo(_, _)
SeqsUpTo(S, n) ==
    IF n = 0 THEN {<<>>}
    ELSE LET shorter == SeqsUpTo(S, n - 1)
         IN shorter \cup {Append(q, x) : q \in {r \in shorter : Len(r) = n - 1}, x \in S}

StatusCodes == {200, 404}

CitingResponses ==
    {[status_code |-> st, docs |-> ds] : st \in StatusCodes, ds \in SeqsUpTo(DocPool, MaxDocs)}

(* Documents of a lookup response (fl=pubdate) *)
LookupDocLists ==
    { <<>>,
      <<[bibcode |-> "B0"]>>,
      <<[pubdate |-> D(2020, 5, 0)]>>,
      <<[pubdate |-> D(2021, 3, 0)], [pubdate |-> D(2019, 12, 0)]>> }

LookupResponses ==
    {[status_code |-> st, docs |-> ds] : st \in StatusCodes, ds \in LookupDocLists}

Resolutions == {"month", "year"}

----------------------------------------------------------------------------
(* get_ads_paper_pubdate: the value returned, or the exception raised, for *)
(* the response to its request                                            *)
get_ads_paper_pubdate(resp) ==
    IF resp.status_code = 200
    THEN IF Len(resp.docs) = 0
         THEN [exc |-> "IndexError", val |-> None]
         ELSE IF "pubdate" \in DOMAIN resp.docs[1]
              THEN [exc |-> "none", val |-> Str(resp.docs[1].pubdate)]
              ELSE [exc |-> "none", val |-> None]
    ELSE [exc |-> "none", val |-> None]

(* Variant: the early return on a missing date is left out *)
AfterLookup_NoEarlyReturn(cp) == "query"

(* Where get_ads_citing_papers goes with the looked-up date *)
AfterLookup(cp) == IF cp = None THEN "returned" ELSE "query"

(* Variant: only server errors (5xx) take the error branch *)
AfterQuery_Below500(status_code) == IF status_code < 500 THEN "loop" ELSE "returned"

(* Where get_ads_citing_papers goes with the status of the citing request *)
AfterQuery(status_code) == IF status_code = 200 THEN "loop" ELSE "returned"

(* paper.get("pubdate", "Unknown") *)
GetPubdate(paper) ==
    IF "pubdate" \in DOMAIN paper THEN paper.pubdate ELSE Unknown

(* Variant: the bounds are excluded (<= and >= in place of < and >) *)
Discard_Exclusive(pubdate, cp, nw) ==
    cp = None \/ ~StrLess(cp.s, pubdate) \/ ~StrLess(pubdate, nw.s)

(* Variant: the comparison with now is left out *)
Discard_NoUpper(pubdate, cp, nw) ==
    cp = None \/ StrLess(pubdate, cp.s)

(* The condition of the `continue` under remove_false *)
Discard(pubdate, cp, nw) ==
    cp = None \/ StrLess(pubdate, cp.s) \/ StrGreater(pubdate, nw.s)

(* Variant: a month of 0 is kept *)
NormMonth_Keep(month) == month

(* if month == 0: month = 1 *)
NormMonth(month) == IF month = 0 THEN 1 ELSE month

(* Variant: the month is read from the day component *)
MakeRow_DayAsMonth(title, bibcode, parts) ==
    [title |-> title, bibcode |-> bibcode,
     year |-> int(parts[1]), month |-> NormMonth(int(parts[3]))]

(* The record built from title, bibcode and the split pubdate *)
MakeRow(title, bibcode, parts) ==
    [title |-> title, bibcode |-> bibcode,
     year |-> int(parts[1]), month |-> NormMonth(int(parts[2]))]

(* Variant: the new row goes to the front *)
AddRow_Front(rows, row) == <<row>> \o rows

(* papers.loc[len(papers.index)] = row *)
AddRow(rows, row) == Append(rows, row)

NoRow == [title |-> "", bibcode |-> "", year |-> 0, month |-> 0]

(* One pass of the loop body over a document: raise, continue or add a row *)
LoopBody(paper, rf, cp, nw) ==
    IF "title" \notin DOMAIN paper
    THEN [kind |-> "raise", exc |-> "KeyError", row |-> NoRow]
    ELSE IF Len(paper.title) = 0
    THEN [kind |-> "raise", exc |-> "IndexError", row |-> NoRow]
    ELSE IF "bibcode" \notin DOMAIN paper
    THEN [kind |-> "raise", exc |-> "KeyError", row |-> NoRow]
    ELSE LET pubdate == GetPubdate(paper)
             parts == split(pubdate)
         IN IF rf /\ Discard(pubdate, cp, nw)
            THEN [kind |-> "continue", exc |-> "none", row |-> NoRow]
            ELSE IF Len(parts) # 3 \/ ~IsInt(parts[1]) \/ ~IsInt(parts[2])
            THEN [kind |-> "raise", exc |-> "ValueError", row |-> NoRow]
            ELSE [kind |-> "add", exc |-> "none",
                  row |-> MakeRow(paper.title[1], paper.bibcode, parts)]

(* citing_papers.groupby(group_cols).title.count(): one bar per group *)
GroupKey(row, res) == IF res = "month" THEN <<row.year, row.month>> ELSE <<row.year>>

GroupCount(rows, res) ==
    {[key |-> k, count |-> Cardinality({j \in 1..Len(rows) : GroupKey(rows[j], res) = k})] :
        k \in {GroupKey(rows[j], res) : j \in 1..Len(rows)}}

----------------------------------------------------------------------------
Init ==
    /\ pc = "idle"
    /\ op = "none"
    /\ resolution = "none"
    /\ remove_false = FALSE
    /\ now = Unbound
    /\ cited_pubdate = Unbound
    /\ requests = <<>>
    /\ lookup_response = NoResponse
    /\ response = NoResponse
    /\ i = 0
    /\ papers = <<>>
    /\ result = NoResult
    /\ fault = NoFault
    /\ bars = {}

(* A caller invokes get_ads_citing_papers(bibcode, api_token, remove_false) *)
CallFetch ==
    /\ pc = "idle"
    /\ \E rf \in BOOLEAN :
        /\ remove_false' = rf
        /\ pc' = IF rf THEN "lookup" ELSE "query"
    /\ op' = "fetch"
    /\ UNCHANGED <<resolution, now, cited_pubdate, requests, lookup_response,
                   response, i, papers, result, fault, bars>>

(* A caller invokes plot_ADS_num_citations_by_time, which calls            *)
(* get_ads_citing_papers with the default remove_false=True                *)
CallPlot ==
    /\ pc = "idle"
    /\ \E res \in Resolutions : resolution' = res
    /\ op' = "plot"
    /\ remove_false' = TRUE
    /\ pc' = "lookup"
    /\ UNCHANGED <<now, cited_pubdate, requests, lookup_response,
                   response, i, papers, result, fault, bars>>

(* remove_false branch: now, the lookup request, the early return on None *)
Lookup ==
    /\ pc = "lookup"
    /\ \E today \in Todays, resp \in LookupResponses :
        LET r == get_ads_paper_pubdate(resp)
        IN /\ now' = Str(strftime(today))
           /\ requests' = Append(requests, "bibcode:")
           /\ lookup_response' = resp
           /\ IF r.exc # "none"
              THEN /\ fault' = Raise(r.exc, "get_ads_paper_pubdate")
                   /\ pc' = "raised"
                   /\ UNCHANGED <<cited_pubdate, result>>
              ELSE /\ cited_pubdate' = r.val
                   /\ pc' = AfterLookup(r.val)
                   /\ result' = IF AfterLookup(r.val) = "returned" THEN EmptyList ELSE result
                   /\ fault' = fault
    /\ UNCHANGED <<op, resolution, remove_false, response, i, papers, bars>>

(* The citing-papers request and the branch on its status *)
Query ==
    /\ pc = "query"
    /\ \E resp \in CitingResponses :
        /\ requests' = Append(requests, "citations(")
        /\ response' = resp
        /\ pc' = AfterQuery(resp.status_code)
        /\ result' = IF AfterQuery(resp.status_code) = "returned" THEN EmptyList ELSE result
    /\ papers' = <<>>
    /\ i' = 0
    /\ UNCHANGED <<op, resolution, remove_false, now, cited_pubdate,
                   lookup_response, fault, bars>>

(* One iteration of `for paper in data["response"]["docs"]` *)
LoopStep ==
    /\ pc = "loop"
    /\ i < Len(response.docs)
    /\ LET o == LoopBody(response.docs[i + 1], remove_false, cited_pubdate, now)
       IN IF o.kind = "raise"
          THEN /\ fault' = Raise(o.exc, "get_ads_citing_papers")
               /\ pc' = "raised"
               /\ UNCHANGED <<i, papers>>
          ELSE /\ i' = i + 1
               /\ papers' = IF o.kind = "add" THEN AddRow(papers, o.row) ELSE papers
               /\ UNCHANGED <<fault, pc>>
    /\ UNCHANGED <<op, resolution, remove_false, now, cited_pubdate, requests,
                   lookup_response, response, result, bars>>

(* The loop is exhausted: return papers *)
ReturnPapers ==
    /\ pc = "loop"
    /\ i = Len(response.docs)
    /\ result' = DataFrame(papers)
    /\ pc' = "returned"
    /\ UNCHANGED <<op, resolution, remove_false, now, cited_pubdate, requests,
                   lookup_response, response, i, papers, fault, bars>>

(* plot_ADS_num_citations_by_time with what get_ads_citing_papers returned. *)
(* A list has no groupby.  Whether pandas draws a bar chart of zero groups  *)
(* or raises is fixed by the installed pandas, not by this code: both are   *)
(* possible outcomes.                                                       *)
Plot ==
    /\ pc = "returned"
    /\ op = "plot"
    /\ IF result.tag = "list"
       THEN /\ fault' = Raise("AttributeError", "plot_ADS_num_citations_by_time")
            /\ pc' = "raised"
            /\ bars' = bars
       ELSE LET counts == GroupCount(result.rows, resolution)
            IN \E drawn \in (IF counts = {} THEN BOOLEAN ELSE {TRUE}) :
                IF drawn
                THEN /\ bars' = counts
                     /\ pc' = "plotted"
                     /\ fault' = fault
                ELSE /\ fault' = Raise("IndexError", "plot_ADS_num_citations_by_time")
                     /\ pc' = "raised"
                     /\ bars' = bars
    /\ UNCHANGED <<op, resolution, remove_false, now, cited_pubdate, requests,
                   lookup_response, response, i, papers, result>>

Next ==
    \/ CallFetch
    \/ CallPlot
    \/ Lookup
    \/ Query
    \/ LoopStep
    \/ ReturnPapers
    \/ Plot

Spec == Init /\ [][Next]_vars

----------------------------------------------------------------------------
(* Vocabulary of the properties, defined apart from the operators above *)

(* s has the shape YYYY-MM-DD *)
WellFormed(s) ==
    /\ Len(s) = 10
    /\ \A k \in {1, 2, 3, 4, 6, 7, 9, 10} : s[k] \in 48..57
    /\ s[5] = 45
    /\ s[8] = 45

YearOf(s) == (s[1] - 48) * 1000 + (s[2] - 48) * 100 + (s[3] - 48) * 10 + (s[4] - 48)
MonthOf(s) == (s[6] - 48) * 10 + (s[7] - 48)

(* a <= b in lexicographic order: equal, or a is a proper prefix of b, or   *)
(* the first position where they differ has the smaller code in a           *)
LexLeq(a, b) ==
    \/ a = b
    \/ /\ Len(a) < Len(b)
       /\ \A k \in 1..Len(a) : a[k] = b[k]
    \/ \E k \in 1..Len(a) :
        /\ k <= Len(b)
        /\ a[k] < b[k]
        /\ \A j \in 1..(k - 1) : a[j] = b[j]

docs == response.docs
HasPubdate(d) == "pubdate" \in DOMAIN d
HasTitle(d) == "title" \in DOMAIN d
HasDate(d) == HasPubdate(d) /\ WellFormed(d.pubdate)
TableReturned == result.tag = "DataFrame"
InTable(d) == \E r \in 1..Len(result.rows) : result.rows[r].bibcode = d.bibcode
InRange(s) == LexLeq(cited_pubdate.s, s) /\ LexLeq(s, now.s)
FetchRaised == fault.fn = "get_ads_citing_papers"

(* The document passes the date filter of this call *)
Retained(d) == ~remove_false \/ (HasPubdate(d) /\ InRange(d.pubdate))

(* C1: with remove_false, a date found and status 200, a document with a   *)
(* well-formed pubdate is in the returned table exactly when               *)
(* citedPubdate <= pubdate <= now; both bounds are retained.               *)
C1_FilterInclusive ==
    (remove_false /\ TableReturned) =>
        \A k \in 1..Len(docs) :
            HasDate(docs[k]) => (InTable(docs[k]) <=> InRange(docs[k].pubdate))

C1_Witness ==
    /\ remove_false
    /\ TableReturned
    /\ \E k \in 1..Len(docs) :
        HasDate(docs[k]) /\ docs[k].pubdate = cited_pubdate.s /\ InTable(docs[k])
    /\ \E k \in 1..Len(docs) :
        HasDate(docs[k]) /\ docs[k].pubdate = now.s /\ InTable(docs[k])

(* C2: with remove_false and no date from the lookup, the call returns an  *)
(* empty result and the lookup request is the only request ever issued.    *)
C2_NoDateNoCitingRequest ==
    (remove_false /\ cited_pubdate = None) =>
        (requests = <<"bibcode:">> /\ result = EmptyList /\ ~FetchRaised)

C2_Witness ==
    /\ op = "fetch"
    /\ remove_false
    /\ cited_pubdate = None
    /\ pc = "returned"
    /\ lookup_response.status_code = 200

(* C3: get_ads_paper_pubdate never raises: it returns None for a non-200   *)
(* status, an empty docs list or a first document without pubdate, and the *)
(* pubdate of the first document otherwise.                                *)
C3_LookupNeverFails ==
    (lookup_response # NoResponse) =>
        /\ fault.fn # "get_ads_paper_pubdate"
        /\ IF \/ lookup_response.status_code # 200
              \/ lookup_response.docs = <<>>
              \/ ~HasPubdate(lookup_response.docs[1])
           THEN cited_pubdate = None
           ELSE cited_pubdate = Str(lookup_response.docs[1].pubdate)

(* C4: when the citing-papers request returns a status other than 200, the *)
(* call returns an empty result and raises nothing.                        *)
C4_ErrorStatusEmptyResult ==
    (response # NoResponse /\ response.status_code # 200) =>
        (result.tag # "unbound" /\ result.rows = <<>> /\ ~FetchRaised)

C4_Witness ==
    /\ remove_false
    /\ cited_pubdate.tag = "str"
    /\ response.status_code = 404
    /\ Len(docs) > 0
    /\ pc = "returned"
    /\ result = EmptyList

(* C5: the plotter raises nothing when the fetcher hands it an empty       *)
(* result; the empty result is drawn as zero bars.                         *)
C5_PlotEmptyNoFault ==
    (op = "plot" /\ result.tag # "unbound" /\ result.rows = <<>>) =>
        /\ fault.fn # "plot_ADS_num_citations_by_time"
        /\ (pc = "plotted" => bars = {})

(* C6: when every pubdate of the response has a month in 00..12, every     *)
(* record of the table has 1 <= month <= 12.                               *)
C6_MonthRange ==
    (\A k \in 1..Len(docs) : HasDate(docs[k]) => MonthOf(docs[k].pubdate) \in 0..12) =>
        /\ \A r \in 1..Len(papers) : papers[r].month \in 1..12
        /\ \A r \in 1..Len(result.rows) : result.rows[r].month \in 1..12

C6_Witness ==
    /\ TableReturned
    /\ \A k \in 1..Len(docs) : HasDate(docs[k]) /\ MonthOf(docs[k].pubdate) \in 0..12
    /\ \E k \in 1..Len(docs) : MonthOf(docs[k].pubdate) = 0 /\ InTable(docs[k])
    /\ \E k \in 1..Len(docs) : MonthOf(docs[k].pubdate) = 12 /\ InTable(docs[k])

(* C7: the table is the subsequence of the response's documents that       *)
(* passed the filter, in the order of the response, one record each; with  *)
(* remove_false false it has one record per document.                      *)
C7_OrderPreserved ==
    LET kept == SelectSeq(SubSeq(docs, 1, i), Retained)
    IN /\ Len(papers) = Len(kept)
       /\ \A r \in 1..Len(papers) :
            /\ r <= Len(kept)
            /\ papers[r].bibcode = kept[r].bibcode
            /\ papers[r].title = kept[r].title[1]
       /\ TableReturned =>
            /\ result.rows = papers
            /\ i = Len(docs)
            /\ ~remove_false => Len(result.rows) = Len(docs)

C7_Witness ==
    /\ remove_false
    /\ TableReturned
    /\ Len(docs) = 2
    /\ Len(result.rows) = 2
    /\ StrLess(docs[2].pubdate, docs[1].pubdate)

(* C8: the record of a retained document with pubdate Y-M-D has year Y and *)
(* month M, a month of 0 becoming 1; the day does not matter.              *)
C8_YearMonthParsed ==
    \A r \in 1..Len(papers) : \A k \in 1..i :
        ("bibcode" \in DOMAIN docs[k] /\ docs[k].bibcode = papers[r].bibcode /\ HasDate(docs[k])) =>
            /\ papers[r].year = YearOf(docs[k].pubdate)
            /\ papers[r].month =
                 (IF MonthOf(docs[k].pubdate) = 0 THEN 1 ELSE MonthOf(docs[k].pubdate))

C8_Witness ==
    /\ remove_false
    /\ TableReturned
    /\ cited_pubdate = Str(D(2020, 5, 0))
    /\ Len(docs) = 2
    /\ Len(result.rows) = 2
    /\ docs[1].pubdate = D(2021, 3, 0)
    /\ docs[2].pubdate = D(2022, 6, 15)
    /\ result.rows[1].year = 2021
    /\ result.rows[1].month = 3
    /\ result.rows[2].month = 6

(* C9: a document of a status-200 response that lacks its pubdate or its   *)
(* title never makes get_ads_citing_papers raise.                          *)
C9_MissingFieldNoFault ==
    ~(/\ FetchRaised
      /\ i < Len(docs)
      /\ (~HasPubdate(docs[i + 1]) \/ ~HasTitle(docs[i + 1])))

(* C10: with remove_false and well-formed citedPubdate and now, a document *)
(* without pubdate is always discarded before the split: it gives no       *)
(* record and never makes the parse raise.                                 *)
C10_UnknownDiscarded ==
    (remove_false /\ cited_pubdate.tag = "str" /\ WellFormed(cited_pubdate.s)
                  /\ WellFormed(now.s)) =>
        /\ \A k \in 1..i :
            ~HasPubdate(docs[k]) =>
                ~\E r \in 1..Len(papers) : papers[r].bibcode = docs[k].bibcode
        /\ ~(/\ FetchRaised
             /\ fault.exc = "ValueError"
             /\ i < Len(docs)
             /\ ~HasPubdate(docs[i + 1]))

C10_Witness ==
    /\ remove_false
    /\ TableReturned
    /\ Len(result.rows) = 1
    /\ \E k \in 1..Len(docs) : ~HasPubdate(docs[k])

====
